---- MODULE Spec2Model ----
(***************************************************************************)
(* NovaWave service worker (sw.js): install / activate / fetch listeners   *)
(* over the browser's CacheStorage, for successive deployments of the      *)
(* worker script that differ only in CACHE_NAME.                           *)
(***************************************************************************)
EXTENDS Integers, Sequences, FiniteSets, TLC

\* ---------------------------------------------------------------- bounds
\* number of deployments of the worker script (each with its own CACHE_NAME)
MaxVersion == 2
\* number of fetch events that can be in flight at once
MaxHandlers == 2
\* number of distinct contents the server can return for one URL
MaxBody == 2

Versions == 1..MaxVersion
Handlers == 1..MaxHandlers

\* ------------------------------------------------------------ constants
\* const CACHE_NAME = 'novawave-v1.0.0' : the bucket name of deployment v
CACHE_NAME(v) == v

\* self.location.origin, an origin whose text begins with it, another one
SelfOrigin == <<"https://novawave.app">>
PrefixOrigin == <<"https://novawave.app", ".evil.example">>
OtherOrigin == <<"https://cdn.example">>

\* a URL is the text of its origin followed by its path
Url(origin, path) == origin \o <<path>>

\* the origin of a URL: everything before the path
UrlOrigin(url) == SubSeq(url, 1, Len(url) - 1)

OFFLINE_URL == Url(SelfOrigin, "/404.html")

CACHE_FILES ==
    << Url(SelfOrigin, "/"),
       Url(SelfOrigin, "/index.html"),
       Url(SelfOrigin, "/features.html"),
       Url(SelfOrigin, "/pricing.html"),
       Url(SelfOrigin, "/about.html"),
       Url(SelfOrigin, "/contact.html"),
       Url(SelfOrigin, "/404.html"),
       Url(SelfOrigin, "/assets/css/main.css"),
       Url(SelfOrigin, "/assets/js/script.js"),
       Url(SelfOrigin, "/manifest.json") >>

ManifestUrls == {CACHE_FILES[i] : i \in 1..Len(CACHE_FILES)}

\* the URLs pages ask for: a page outside the manifest, on each origin
ReqUrls ==
    { Url(SelfOrigin, "/blog.html"), Url(PrefixOrigin, "/blog.html"),
      Url(OtherOrigin, "/blog.html") }

Keys == ManifestUrls \cup ReqUrls

\* event.request
Request(method, url, mode) == [method |-> method, url |-> url, mode |-> mode]

Requests ==
    { Request("GET", Url(SelfOrigin, "/blog.html"), "navigate"),
      Request("GET", Url(SelfOrigin, "/blog.html"), "same-origin"),
      Request("POST", Url(SelfOrigin, "/blog.html"), "navigate"),
      Request("GET", Url(PrefixOrigin, "/blog.html"), "cors"),
      Request("GET", Url(OtherOrigin, "/blog.html"), "no-cors") }

NoReq == [method |-> "-", url |-> <<>>, mode |-> "-"]

\* a Response; body is the content the server had for the URL
Response(status, type, url, gen) ==
    [status |-> status,
     statusText |-> IF status = 200 THEN "OK" ELSE "",
     type |-> type, contentType |-> "", body |-> <<url, gen>>]

\* new Response('Offline', {status: 503, statusText: 'Service Unavailable', ...})
OfflineResponse_Status500 ==
    [status |-> 500, statusText |-> "Service Unavailable",
     type |-> "default", contentType |-> "text/plain", body |-> <<"Offline">>]

OfflineResponse ==
    [status |-> 503, statusText |-> "Service Unavailable",
     type |-> "default", contentType |-> "text/plain", body |-> <<"Offline">>]

\* what a lookup that finds nothing resolves to
Undefined == [status |-> 0, statusText |-> "undefined",
              type |-> "undefined", contentType |-> "", body |-> <<>>]

\* the responses fetch(request) can resolve to
NetworkResponses(req) ==
    IF UrlOrigin(req.url) = SelfOrigin
      THEN {Response(200, "basic", req.url, g) : g \in 1..MaxBody}
             \cup {Response(404, "basic", req.url, 0)}
      ELSE IF req.mode = "cors"
        THEN {Response(200, "cors", req.url, g) : g \in 1..MaxBody}
        ELSE {Response(0, "opaque", req.url, 0)}

\* ---------------------------------------------------------------- state
VARIABLES
    cacheOrder,   \* CacheStorage: the bucket names, in creation order
    store,        \* CacheStorage: name -> (key -> Response), Undefined = no entry
    wstate,       \* the lifecycle state of each deployment's worker
    ipc,          \* install listener: position of each worker's promise chain
    ihandle,      \* install listener: the Cache object returned by caches.open
    skipped,      \* self.skipWaiting() has been called
    apc,          \* activate listener: position of each worker's promise chain
    akeys,        \* activate listener: cacheNames still to be mapped
    claimed,      \* self.clients.claim() has been called
    fh            \* the fetch events in flight

\* the page (script.js): one document with its managers
VARIABLES
    hasToggle,    \* the document has the #themeToggle element
    storageOK,    \* localStorage can be read and written (else it throws)
    stored,       \* localStorage['novawave-theme'], "none" when absent
    systemDark,   \* matchMedia('(prefers-color-scheme: dark)').matches
    theme,        \* ThemeManager: currentTheme, data-theme, listeners bound
    uncaught,     \* an exception left a listener of the page uncaught
    nav,          \* the mobile menu: classes, aria-expanded, body overflow
    navClicks,    \* toggle activations since the menu was last known closed
    pricing,      \* PricingManager: toggle, isAnnual and the price elements
    timers,       \* PricingManager: pending setTimeout callbacks of switchPricing
    form,         \* the form: its submit button, fields and last success report
    subs,         \* FormValidator.submitForm calls waiting at their await
    fb,           \* enhanceFormFeedback: pending timers of its submit listener
    layout,       \* the observed sections of the document and their stat numbers
    cm            \* CounterManager: observer, animatedCounters, animations started

swVars == <<cacheOrder, store, wstate, ipc, ihandle, skipped, apc, akeys, claimed, fh>>

widgetVars == <<hasToggle, storageOK, stored, systemDark, theme, uncaught,
                nav, navClicks, pricing, timers>>

formVars == <<form, subs, fb>>

counterVars == <<layout, cm>>

pageVars == <<widgetVars, formVars, counterVars>>

vars == <<swVars, pageVars>>

EmptyBucket == [k \in Keys |-> Undefined]

IdleHandler ==
    [pc |-> "idle", worker |-> 0, req |-> NoReq, intercepted |-> FALSE,
     net |-> 0, outcome |-> "none", result |-> Undefined,
     wpc |-> "none", dup |-> Undefined, dupOf |-> "none", bodyUsed |-> FALSE,
     handle |-> "none"]

SWInit ==
    /\ cacheOrder = <<>>
    /\ store = [n \in Versions |-> EmptyBucket]
    /\ wstate = [v \in Versions |-> "parsed"]
    /\ ipc = [v \in Versions |-> "idle"]
    /\ ihandle = [v \in Versions |-> "none"]
    /\ skipped = [v \in Versions |-> FALSE]
    /\ apc = [v \in Versions |-> "idle"]
    /\ akeys = [v \in Versions |-> {}]
    /\ claimed = [v \in Versions |-> FALSE]
    /\ fh = [h \in Handlers |-> IdleHandler]

\* ------------------------------------------------------- the page
\* ThemeManager

MaxToggles == 3
MaxPrices == 2

Themes == {"light", "dark"}
StoredValues == {"none", "light", "dark", "sepia"}

SystemTheme(dark) == IF dark THEN "dark" ELSE "light"

ApplyTheme_Unchecked(value) == value

\* applyTheme: a value that is neither light nor dark is applied as light
ApplyTheme(value) == IF value \in Themes THEN value ELSE "light"

\* fallbackToSystemTheme
FallbackToSystemTheme(dark) == ApplyTheme(SystemTheme(dark))

\* loadSavedTheme: getItem throws when storage is unavailable, and the catch
\* applies light
LoadSavedTheme(ok, saved, dark) ==
    IF ~ok THEN ApplyTheme("light")
    ELSE ApplyTheme(IF saved # "none" THEN saved ELSE SystemTheme(dark))

ThemeInit_AlwaysLoads(toggle, ok, saved, dark) ==
    [current |-> LoadSavedTheme(ok, saved, dark),
     attr |-> LoadSavedTheme(ok, saved, dark), bound |-> TRUE]

\* ThemeManager.init: without the toggle element nothing is read or bound
ThemeInit(toggle, ok, saved, dark) ==
    IF ~toggle
    THEN [current |-> FallbackToSystemTheme(dark),
          attr |-> FallbackToSystemTheme(dark), bound |-> FALSE]
    ELSE [current |-> LoadSavedTheme(ok, saved, dark),
          attr |-> LoadSavedTheme(ok, saved, dark), bound |-> TRUE]

Opposite(current) == IF current = "dark" THEN "light" ELSE "dark"

SaveTheme_Skips(ok, saved, value) == saved

\* saveTheme: setItem throws when storage is unavailable; the throw is caught
SaveTheme(ok, saved, value) == IF ok THEN value ELSE saved

\* toggleTheme, applied n times in a row
RECURSIVE ToggleTimes(_, _, _, _)
ToggleTimes(n, ok, current, saved) ==
    IF n = 0 THEN [current |-> current, stored |-> saved]
    ELSE ToggleTimes(n - 1, ok, ApplyTheme(Opposite(current)),
                     SaveTheme(ok, saved, ApplyTheme(Opposite(current))))

\* NavigationManager

NavClosed == [links |-> FALSE, toggle |-> FALSE, expanded |-> FALSE, locked |-> FALSE]

\* openMobileMenu
OpenMobileMenu(n) == [links |-> TRUE, toggle |-> TRUE, expanded |-> TRUE, locked |-> TRUE]

CloseMobileMenu_KeepsLock(n) ==
    [links |-> FALSE, toggle |-> FALSE, expanded |-> FALSE, locked |-> n.locked]

\* closeMobileMenu
CloseMobileMenu(n) == [links |-> FALSE, toggle |-> FALSE, expanded |-> FALSE, locked |-> FALSE]

\* handleEscapeKey: classList.remove('active', 'open') on every such element
RemoveActive(n) == [n EXCEPT !.links = FALSE, !.toggle = FALSE]

ToggleMobileMenu_OnlyOpens(n) == OpenMobileMenu(n)

\* toggleMobileMenu
ToggleMobileMenu(n) == IF n.links THEN CloseMobileMenu(n) ELSE OpenMobileMenu(n)

\* PricingManager

Prices == 1..MaxPrices
\* the classes the markup gives the two sets, each set hidden or shown as one
Markups == {[monthlyHidden |-> [i \in Prices |-> m], annualHidden |-> [i \in Prices |-> a]] :
               m \in BOOLEAN, a \in BOOLEAN}

\* setupInitialState over the classes the markup came with
SetupInitialState(markup) ==
    [checked |-> FALSE, isAnnual |-> FALSE, ariaChecked |-> FALSE, disabled |-> FALSE,
     monthlyHidden |-> [i \in Prices |-> FALSE],
     annualHidden |-> [i \in Prices |-> TRUE]]

TogglePriceVisibility_SameFlag(p, isAnnual) ==
    [p EXCEPT !.monthlyHidden = [i \in Prices |-> isAnnual],
              !.annualHidden = [i \in Prices |-> isAnnual]]

\* togglePriceVisibility: monthly hidden iff annual, annual hidden iff not
TogglePriceVisibility(p, isAnnual) ==
    [p EXCEPT !.monthlyHidden = [i \in Prices |-> isAnnual],
              !.annualHidden = [i \in Prices |-> ~isAnnual]]

HandleToggleChange_NoAria(p, isAnnual) ==
    [p EXCEPT !.isAnnual = isAnnual, !.disabled = TRUE]

\* handleToggleChange: isAnnual, switchPricing (disable, defer), aria-checked
HandleToggleChange(p, isAnnual) ==
    [p EXCEPT !.isAnnual = isAnnual, !.disabled = TRUE, !.ariaChecked = isAnnual]

\* getCurrentBillingType
GetCurrentBillingType(p) == IF p.isAnnual THEN "annual" ELSE "monthly"

\* FormValidator and enhanceFormFeedback

MaxSubmits == 2

OriginalLabel == "Send"

FormLoaded == [disabled |-> FALSE, loading |-> FALSE, success |-> FALSE,
               label |-> OriginalLabel, reported |-> "none", fields |-> "reset"]

\* submitForm up to its await: the loading state of the button
SubmitFormStart(f) ==
    [f EXCEPT !.disabled = TRUE, !.label = "Sending...", !.loading = TRUE]

\* submitForm after its await: showSuccessMessage, form.reset(), the button
\* gets back the text read when this call started
SubmitFormFinish(f, originalText) ==
    [f EXCEPT !.reported = "message", !.fields = "reset", !.disabled = FALSE,
              !.label = originalText, !.loading = FALSE]

\* handleFormSubmit: submitForm only when validateForm returned true
HandleFormSubmit(f, isValid) == IF isValid THEN SubmitFormStart(f) ELSE f

\* the submit listener of enhanceFormFeedback acts when the button is enabled
FeedbackActs(f) == ~f.disabled

\* the submit listener of enhanceFormFeedback
FeedbackStart(f) == IF FeedbackActs(f) THEN [f EXCEPT !.loading = TRUE] ELSE f

\* CounterManager

MaxSections == 2
MaxStats == 2
MaxEntries == 2
MaxStarts == 2

Sections == 1..MaxSections
Stats == 1..MaxStats

\* the elements matching '.glass-card, .stats' and the .stat-number elements
\* inside each of them
Layouts == [stats : [Sections -> BOOLEAN], numbers : [Sections -> SUBSET Stats]]

RestLayout == [stats |-> [e \in Sections |-> TRUE], numbers |-> [e \in Sections |-> Stats]]

\* the constructor, setupIntersectionObserver and observeElements
ManagerLoaded ==
    [observed |-> Sections, faded |-> {}, animatedCounters |-> {},
     starts |-> [n \in Stats |-> 0]]

AnimateStatsSection_NoGuard(m, numbers) ==
    [m EXCEPT !.animatedCounters = @ \cup numbers,
              !.starts = [n \in Stats |-> IF n \in numbers THEN @[n] + 1 ELSE @[n]]]

\* animateStatsSection: animateCounter for each number not in animatedCounters
AnimateStatsSection(m, numbers) ==
    [m EXCEPT !.animatedCounters = @ \cup numbers,
              !.starts = [n \in Stats |->
                            IF n \in numbers \ m.animatedCounters THEN @[n] + 1 ELSE @[n]]]

\* handleElementIntersection
HandleElementIntersection(m, l, element) ==
    IF l.stats[element]
    THEN AnimateStatsSection([m EXCEPT !.faded = @ \cup {element}], l.numbers[element])
    ELSE [m EXCEPT !.faded = @ \cup {element}]

\* the observer callback: entries.forEach(...), then unobserve of the target
RECURSIVE ObserverCallback(_, _, _)
ObserverCallback(m, l, entries) ==
    IF entries = <<>> THEN m
    ELSE ObserverCallback(
            IF Head(entries).isIntersecting
            THEN [HandleElementIntersection(m, l, Head(entries).target)
                     EXCEPT !.observed = @ \ {Head(entries).target}]
            ELSE m,
            l, Tail(entries))

\* destroy
DestroyManager(m) == [m EXCEPT !.observed = {}, !.animatedCounters = {}]

\* the document after DOMContentLoaded: init() has constructed every manager
PageLoaded(toggle, ok, saved, dark, markup) ==
    /\ theme' = ThemeInit(toggle, ok, saved, dark)
    /\ uncaught' = FALSE
    /\ nav' = NavClosed
    /\ navClicks' = 0
    /\ pricing' = SetupInitialState(markup)
    /\ timers' = <<>>
    /\ form' = FormLoaded
    /\ subs' = <<>>
    /\ fb' = <<>>
    /\ cm' = ManagerLoaded

\* the counters while another part of the page is observed
CountersAtRest ==
    /\ layout = RestLayout
    /\ cm = ManagerLoaded

PageInit ==
    /\ CountersAtRest
    /\ hasToggle \in BOOLEAN
    /\ storageOK \in BOOLEAN
    /\ stored \in (IF storageOK THEN StoredValues ELSE {"none"})
    /\ systemDark \in BOOLEAN
    /\ theme = ThemeInit(hasToggle, storageOK, stored, systemDark)
    /\ uncaught = FALSE
    /\ nav = NavClosed
    /\ navClicks = 0
    /\ \E markup \in Markups : pricing = SetupInitialState(markup)
    /\ timers = <<>>
    /\ form = FormLoaded
    /\ subs = <<>>
    /\ fb = <<>>

\* the page while only the service worker is observed
WidgetsAtRest ==
    /\ hasToggle = TRUE
    /\ storageOK = TRUE
    /\ stored = "none"
    /\ systemDark = FALSE
    /\ theme = ThemeInit(TRUE, TRUE, "none", FALSE)
    /\ uncaught = FALSE
    /\ nav = NavClosed
    /\ navClicks = 0
    /\ \E markup \in Markups : pricing = SetupInitialState(markup)
    /\ timers = <<>>
    /\ form = FormLoaded
    /\ subs = <<>>
    /\ fb = <<>>

PageAtRest == WidgetsAtRest /\ CountersAtRest

Init == SWInit /\ PageAtRest

\* a reload of the document: every manager is constructed again
Reload ==
    /\ \E markup \in Markups : PageLoaded(hasToggle, storageOK, stored, systemDark, markup)
    /\ UNCHANGED <<hasToggle, storageOK, stored, systemDark, layout>>
    /\ UNCHANGED swVars

\* click on #themeToggle
ThemeToggleClick ==
    /\ theme.bound
    /\ LET r == ToggleTimes(1, storageOK, theme.current, stored)
       IN /\ theme' = [theme EXCEPT !.current = r.current, !.attr = r.current]
          /\ stored' = r.stored
    /\ UNCHANGED <<hasToggle, storageOK, systemDark, uncaught, nav, navClicks, pricing, timers>>
    /\ UNCHANGED formVars
    /\ UNCHANGED counterVars
    /\ UNCHANGED swVars

\* Ctrl/Cmd+Shift+T: the keydown listener of ThemeManager.bindEvents, when
\* bound, and the one of PerformanceManager.setupKeyboardNavigation
ThemeShortcut ==
    /\ LET r == ToggleTimes((IF theme.bound THEN 1 ELSE 0) + 1,
                            storageOK, theme.current, stored)
       IN /\ theme' = [theme EXCEPT !.current = r.current, !.attr = r.current]
          /\ stored' = r.stored
    /\ UNCHANGED <<hasToggle, storageOK, systemDark, uncaught, nav, navClicks, pricing, timers>>
    /\ UNCHANGED formVars
    /\ UNCHANGED counterVars
    /\ UNCHANGED swVars

SystemChange_AlwaysApplies ==
    /\ systemDark' = ~systemDark
    /\ theme' = IF theme.bound
                THEN [theme EXCEPT !.current = ApplyTheme(SystemTheme(systemDark')),
                                   !.attr = ApplyTheme(SystemTheme(systemDark'))]
                ELSE theme
    /\ UNCHANGED <<hasToggle, storageOK, stored, uncaught, nav, navClicks, pricing, timers>>
    /\ UNCHANGED formVars
    /\ UNCHANGED counterVars
    /\ UNCHANGED swVars

\* the system colour scheme changes: the 'change' listener of bindEvents
SystemChange ==
    /\ systemDark' = ~systemDark
    /\ IF ~theme.bound
       THEN UNCHANGED <<theme, uncaught>>
       ELSE IF ~storageOK
       THEN uncaught' = TRUE /\ UNCHANGED theme
       ELSE /\ theme' = IF stored = "none"
                        THEN [theme EXCEPT !.current = ApplyTheme(SystemTheme(systemDark')),
                                           !.attr = ApplyTheme(SystemTheme(systemDark'))]
                        ELSE theme
            /\ UNCHANGED uncaught
    /\ UNCHANGED <<hasToggle, storageOK, stored, nav, navClicks, pricing, timers>>
    /\ UNCHANGED formVars
    /\ UNCHANGED counterVars
    /\ UNCHANGED swVars

\* the site's storage is cleared from outside the page
ClearStorage ==
    /\ storageOK
    /\ stored # "none"
    /\ stored' = "none"
    /\ UNCHANGED <<hasToggle, storageOK, systemDark, theme, uncaught, nav, navClicks, pricing, timers>>
    /\ UNCHANGED formVars
    /\ UNCHANGED counterVars
    /\ UNCHANGED swVars

\* click on .nav-toggle (stopPropagation keeps it from the document listener)
NavToggleClick ==
    /\ navClicks < MaxToggles
    /\ nav' = ToggleMobileMenu(nav)
    /\ navClicks' = navClicks + 1
    /\ UNCHANGED <<hasToggle, storageOK, stored, systemDark, theme, uncaught, pricing, timers>>
    /\ UNCHANGED formVars
    /\ UNCHANGED counterVars
    /\ UNCHANGED swVars

\* click outside .navbar: the document click listener
OutsideClick ==
    /\ nav' = IF nav.links THEN CloseMobileMenu(nav) ELSE nav
    /\ navClicks' = 0
    /\ UNCHANGED <<hasToggle, storageOK, stored, systemDark, theme, uncaught, pricing, timers>>
    /\ UNCHANGED formVars
    /\ UNCHANGED counterVars
    /\ UNCHANGED swVars

\* Escape: the keydown listener of NavigationManager and handleEscapeKey
EscapeKey ==
    /\ nav' = RemoveActive(CloseMobileMenu(IF nav.links THEN CloseMobileMenu(nav) ELSE nav))
    /\ navClicks' = 0
    /\ UNCHANGED <<hasToggle, storageOK, stored, systemDark, theme, uncaught, pricing, timers>>
    /\ UNCHANGED formVars
    /\ UNCHANGED counterVars
    /\ UNCHANGED swVars

\* 'change' on the billing toggle: the checkbox has flipped
BillingChange ==
    /\ ~pricing.disabled
    /\ pricing' = HandleToggleChange([pricing EXCEPT !.checked = ~pricing.checked],
                                     ~pricing.checked)
    /\ timers' = Append(timers, ~pricing.checked)
    /\ UNCHANGED <<hasToggle, storageOK, stored, systemDark, theme, uncaught, nav, navClicks>>
    /\ UNCHANGED formVars
    /\ UNCHANGED counterVars
    /\ UNCHANGED swVars

\* Enter or Space on the billing toggle: handleKeydown
BillingKeydown ==
    /\ ~pricing.disabled
    /\ pricing' = HandleToggleChange([pricing EXCEPT !.checked = ~pricing.checked],
                                     ~pricing.checked)
    /\ timers' = Append(timers, ~pricing.checked)
    /\ UNCHANGED <<hasToggle, storageOK, stored, systemDark, theme, uncaught, nav, navClicks>>
    /\ UNCHANGED formVars
    /\ UNCHANGED counterVars
    /\ UNCHANGED swVars

\* the setTimeout callback of switchPricing
SwitchTimer ==
    /\ timers # <<>>
    /\ pricing' = [TogglePriceVisibility(pricing, Head(timers)) EXCEPT !.disabled = FALSE]
    /\ timers' = Tail(timers)
    /\ UNCHANGED <<hasToggle, storageOK, stored, systemDark, theme, uncaught, nav, navClicks>>
    /\ UNCHANGED formVars
    /\ UNCHANGED counterVars
    /\ UNCHANGED swVars

\* a 'submit' event of the form: the listener of FormValidator, then the one
\* of enhanceFormFeedback
Submit(isValid) ==
    /\ Len(subs) < MaxSubmits
    /\ Len(fb) < MaxSubmits
    /\ LET f == HandleFormSubmit([form EXCEPT !.fields = "filled"], isValid) IN
         /\ form' = FeedbackStart(f)
         /\ subs' = IF isValid THEN Append(subs, form.label) ELSE subs
         /\ fb' = IF FeedbackActs(f)
                  THEN Append(fb, [stage |-> "notify", valid |-> isValid])
                  ELSE fb
    /\ UNCHANGED widgetVars
    /\ UNCHANGED counterVars
    /\ UNCHANGED swVars

\* the setTimeout(resolve, 1000) of the oldest waiting submitForm call
SubmitDone ==
    /\ subs # <<>>
    /\ form' = SubmitFormFinish(form, Head(subs))
    /\ subs' = Tail(subs)
    /\ UNCHANGED fb
    /\ UNCHANGED widgetVars
    /\ UNCHANGED counterVars
    /\ UNCHANGED swVars

\* the 1500 ms timer of enhanceFormFeedback: showNotification(..., 'success')
FeedbackNotify(i) ==
    /\ i \in 1..Len(fb)
    /\ fb[i].stage = "notify"
    /\ \A j \in 1..(i - 1) : fb[j].stage = "reset"
    /\ form' = [form EXCEPT !.loading = FALSE, !.success = TRUE,
                            !.reported = "notification"]
    /\ fb' = [fb EXCEPT ![i].stage = "reset"]
    /\ UNCHANGED subs
    /\ UNCHANGED widgetVars
    /\ UNCHANGED counterVars
    /\ UNCHANGED swVars

\* the 2000 ms timer inside it: form.reset()
FeedbackReset ==
    /\ fb # <<>>
    /\ Head(fb).stage = "reset"
    /\ form' = [form EXCEPT !.success = FALSE, !.fields = "reset"]
    /\ fb' = Tail(fb)
    /\ UNCHANGED subs
    /\ UNCHANGED widgetVars
    /\ UNCHANGED counterVars
    /\ UNCHANGED swVars

PageNext ==
    \/ Reload
    \/ ThemeToggleClick
    \/ ThemeShortcut
    \/ SystemChange
    \/ ClearStorage
    \/ NavToggleClick
    \/ OutsideClick
    \/ EscapeKey
    \/ BillingChange
    \/ BillingKeydown
    \/ SwitchTimer

PageSpecInit == SWInit /\ PageInit

PageSpec == PageSpecInit /\ [][PageNext]_vars

\* the form of the page, the rest of the page at rest
FormNext ==
    \/ Reload
    \/ \E isValid \in BOOLEAN : Submit(isValid)
    \/ SubmitDone
    \/ \E i \in 1..MaxSubmits : FeedbackNotify(i)
    \/ FeedbackReset

FormSpecInit == SWInit /\ PageAtRest

FormSpec == FormSpecInit /\ [][FormNext]_vars

\* the IntersectionObserver delivers a batch of entries for observed targets
Intersection(entries) ==
    /\ \A i \in 1..Len(entries) : entries[i].target \in cm.observed
    /\ \A n \in Stats : ObserverCallback(cm, layout, entries).starts[n] <= MaxStarts
    /\ cm' = ObserverCallback(cm, layout, entries)
    /\ UNCHANGED layout
    /\ UNCHANGED <<widgetVars, formVars>>
    /\ UNCHANGED swVars

\* counterManager.destroy()
Destroy ==
    /\ cm' = DestroyManager(cm)
    /\ UNCHANGED layout
    /\ UNCHANGED <<widgetVars, formVars>>
    /\ UNCHANGED swVars

Entries == [target : Sections, isIntersecting : BOOLEAN]

Batches == UNION {[1..k -> Entries] : k \in 1..MaxEntries}

\* the counters of the page, the rest of the page at rest
CounterNext ==
    \/ Reload
    \/ \E entries \in Batches : Intersection(entries)
    \/ Destroy

CounterSpecInit ==
    /\ SWInit
    /\ WidgetsAtRest
    /\ layout \in Layouts
    /\ cm = ManagerLoaded

CounterSpec == CounterSpecInit /\ [][CounterNext]_vars

\* ------------------------------------------------------- CacheStorage
Names == {cacheOrder[i] : i \in 1..Len(cacheOrder)}

\* caches.open(name): creates the bucket when it does not exist
OpenOrder(name) == IF name \in Names THEN cacheOrder ELSE Append(cacheOrder, name)

\* caches.delete(name)
DeleteOrder(name) == SelectSeq(cacheOrder, LAMBDA n : n # name)

\* caches.match(key): the first bucket, in creation order, that has the key
RECURSIVE MatchFrom(_, _)
MatchFrom(i, key) ==
    IF i > Len(cacheOrder) THEN Undefined
    ELSE IF store[cacheOrder[i]][key] # Undefined THEN store[cacheOrder[i]][key]
    ELSE MatchFrom(i + 1, key)

CachesMatch(key) == MatchFrom(1, key)

\* String.prototype.startsWith
StartsWith(s, prefix) ==
    /\ Len(s) >= Len(prefix)
    /\ SubSeq(s, 1, Len(prefix)) = prefix

\* the Cache objects of a deleted bucket live on, detached from storage
Detach(handle, name, deleted) ==
    IF handle = "live" /\ name = deleted THEN "detached" ELSE handle

\* ----------------------------------------------------- install listener
\* navigator.serviceWorker.register('/sw.js') on a page load: the browser
\* installs a worker script it has not installed yet, or again the deployed
\* script whose installation it had been told failed
Register(v) ==
    /\ IF wstate[v] = "parsed"
         THEN \A u \in Versions : u < v => wstate[u] # "parsed"
         ELSE /\ wstate[v] = "redundant"
              /\ ipc[v] = "caught"
              /\ apc[v] = "idle"
              /\ \A u \in Versions : u > v => wstate[u] = "parsed"
    /\ \A u \in Versions : wstate[u] # "installing"
    /\ wstate' = [wstate EXCEPT ![v] = "installing"]
    /\ ipc' = [ipc EXCEPT ![v] = "open"]
    /\ UNCHANGED <<cacheOrder, store, ihandle, skipped, apc, akeys, claimed, fh>>
    /\ UNCHANGED pageVars

\* caches.open(CACHE_NAME)
InstallOpen(v) ==
    /\ ipc[v] = "open"
    /\ cacheOrder' = OpenOrder(CACHE_NAME(v))
    /\ ihandle' = [ihandle EXCEPT ![v] = "live"]
    /\ ipc' = [ipc EXCEPT ![v] = "addAll"]
    /\ UNCHANGED <<store, wstate, skipped, apc, akeys, claimed, fh>>
    /\ UNCHANGED pageVars

\* cache.addAll(CACHE_FILES): every file is fetched, then all are stored;
\* failed is the index of a file whose fetch failed, 0 when none did.
\* ipc ends as "cached" (the .then with skipWaiting ran) or "caught" (the
\* .catch ran)
AddAll(bucket, failed, gen) ==
    IF failed # 0 THEN bucket
    ELSE [k \in Keys |->
            IF k \in ManifestUrls THEN Response(200, "basic", k, gen) ELSE bucket[k]]

\* the promise handed to event.waitUntil: .then(skipWaiting).catch(log)
InstallPromise(failed) == "fulfilled"

\* the state the browser gives the worker when the install promise settles
Installed(v, promise) ==
    [u \in Versions |->
        IF u = v THEN (IF promise = "fulfilled" THEN "installed" ELSE "redundant")
        ELSE IF wstate[u] = "installed" /\ promise = "fulfilled" THEN "redundant"
        ELSE wstate[u]]

InstallAddAll(v) ==
    /\ ipc[v] = "addAll"
    /\ \E failed \in 0..Len(CACHE_FILES), gen \in 1..MaxBody :
        /\ store' = IF ihandle[v] = "live"
                      THEN [store EXCEPT ![CACHE_NAME(v)] = AddAll(@, failed, gen)]
                      ELSE store
        /\ skipped' = [skipped EXCEPT ![v] = (failed = 0)]
        /\ wstate' = Installed(v, InstallPromise(failed))
        /\ ipc' = [ipc EXCEPT ![v] = IF failed = 0 THEN "cached" ELSE "caught"]
    /\ UNCHANGED <<cacheOrder, ihandle, apc, akeys, claimed, fh>>
    /\ UNCHANGED pageVars

\* ---------------------------------------------------- activate listener
\* the browser fires 'activate': skipWaiting was called, or there is no
\* active worker, or the pages of the active worker have been closed
Activate(v) ==
    /\ wstate[v] = "installed"
    /\ \A u \in Versions : wstate[u] # "activating"
    /\ \E pagesClosed \in BOOLEAN :
         \/ skipped[v]
         \/ \A u \in Versions : wstate[u] # "activated"
         \/ pagesClosed
    /\ wstate' = [u \in Versions |->
                    IF u = v THEN "activating"
                    ELSE IF wstate[u] = "activated" THEN "redundant"
                    ELSE wstate[u]]
    /\ apc' = [apc EXCEPT ![v] = "keys"]
    /\ UNCHANGED <<cacheOrder, store, ipc, ihandle, skipped, akeys, claimed, fh>>
    /\ UNCHANGED pageVars

\* caches.keys()
ActivateKeys(v) ==
    /\ apc[v] = "keys"
    /\ akeys' = [akeys EXCEPT ![v] = Names]
    /\ apc' = [apc EXCEPT ![v] = "map"]
    /\ UNCHANGED <<cacheOrder, store, wstate, ipc, ihandle, skipped, claimed, fh>>
    /\ UNCHANGED pageVars

\* if (cacheName !== CACHE_NAME)
IsStale(v, cacheName) == cacheName # CACHE_NAME(v)

\* cacheNames.map(...): caches.delete(cacheName) for a stale name
ActivateMap(v, cacheName) ==
    /\ apc[v] = "map"
    /\ cacheName \in akeys[v]
    /\ akeys' = [akeys EXCEPT ![v] = @ \ {cacheName}]
    /\ IF IsStale(v, cacheName)
         THEN /\ cacheOrder' = DeleteOrder(cacheName)
              /\ store' = [store EXCEPT ![cacheName] = EmptyBucket]
              /\ ihandle' = [u \in Versions |->
                               Detach(ihandle[u], CACHE_NAME(u), cacheName)]
              /\ fh' = [h \in Handlers |->
                          [fh[h] EXCEPT !.handle =
                              Detach(@, CACHE_NAME(fh[h].worker), cacheName)]]
         ELSE UNCHANGED <<cacheOrder, store, ihandle, fh>>
    /\ UNCHANGED <<wstate, ipc, skipped, apc, claimed>>
    /\ UNCHANGED pageVars

ActivateClaim_BeforeCleanup(v) ==
    /\ apc[v] = "map"
    /\ claimed' = [claimed EXCEPT ![v] = TRUE]
    /\ wstate' = [wstate EXCEPT ![v] = "activated"]
    /\ apc' = [apc EXCEPT ![v] = "done"]
    /\ akeys' = [akeys EXCEPT ![v] = {}]
    /\ UNCHANGED <<cacheOrder, store, ipc, ihandle, skipped, fh>>
    /\ UNCHANGED pageVars

\* .then(() => self.clients.claim()), after Promise.all has resolved
ActivateClaim(v) ==
    /\ apc[v] = "map"
    /\ akeys[v] = {}
    /\ claimed' = [claimed EXCEPT ![v] = TRUE]
    /\ wstate' = [wstate EXCEPT ![v] = "activated"]
    /\ apc' = [apc EXCEPT ![v] = "done"]
    /\ UNCHANGED <<cacheOrder, store, ipc, ihandle, skipped, akeys, fh>>
    /\ UNCHANGED pageVars

\* ------------------------------------------------------- fetch listener
\* the two early returns: the request is one the listener answers
Intercepts(req) ==
    /\ req.method = "GET"
    /\ StartsWith(req.url, SelfOrigin)

\* the 'fetch' event of a page controlled by the active worker; the events
\* in flight are interchangeable, so a new one takes the lowest free slot
FetchEvent(h, req) ==
    /\ fh[h].pc = "idle"
    /\ \A g \in Handlers : g < h => fh[g].pc # "idle"
    /\ \E v \in Versions :
        /\ wstate[v] = "activated"
        /\ fh' = [fh EXCEPT ![h] =
                    IF Intercepts(req)
                      THEN [IdleHandler EXCEPT !.pc = "match", !.worker = v,
                                               !.req = req, !.intercepted = TRUE]
                      ELSE [IdleHandler EXCEPT !.pc = "done", !.worker = v,
                                               !.req = req,
                                               !.outcome = "passthrough"]]
    /\ UNCHANGED <<cacheOrder, store, wstate, ipc, ihandle, skipped, apc, akeys, claimed>>
    /\ UNCHANGED pageVars

Lookup_NeverHit(req) == Undefined

\* caches.match(event.request).then(cachedResponse => ...)
Lookup(req) == CachesMatch(req.url)

Match(h) ==
    /\ fh[h].pc = "match"
    /\ LET cachedResponse == Lookup(fh[h].req) IN
         fh' = [fh EXCEPT ![h] =
                  IF cachedResponse # Undefined
                    THEN [@ EXCEPT !.pc = "done", !.outcome = "cached",
                                   !.result = cachedResponse]
                    ELSE [@ EXCEPT !.pc = "fetch"]]
    /\ UNCHANGED <<cacheOrder, store, wstate, ipc, ihandle, skipped, apc, akeys, claimed>>
    /\ UNCHANGED pageVars

Cacheable_AnyType(response) ==
    /\ response # Undefined
    /\ response.status = 200

\* !(!response || response.status !== 200 || response.type !== 'basic')
Cacheable(response) ==
    /\ response # Undefined
    /\ response.status = 200
    /\ response.type = "basic"

Clone_SameObject(response) == [response |-> response, object |-> "original"]

\* response.clone(): a second Response object with the same content, whose
\* body can be read independently of the original's
Clone(response) == [response |-> response, object |-> "clone"]

\* fetch(event.request) resolves: .then(response => ...)
FetchResolved(h) ==
    /\ fh[h].pc = "fetch"
    /\ \E response \in NetworkResponses(fh[h].req) :
         fh' = [fh EXCEPT ![h] =
                  IF Cacheable(response)
                    THEN [@ EXCEPT !.pc = "done", !.net = @ + 1,
                                   !.outcome = "network",
                                   !.result = response,
                                   !.dup = Clone(response).response,
                                   !.dupOf = Clone(response).object,
                                   !.wpc = "open"]
                    ELSE [@ EXCEPT !.pc = "done", !.net = @ + 1,
                                   !.outcome = "network",
                                   !.result = response]]
    /\ UNCHANGED <<cacheOrder, store, wstate, ipc, ihandle, skipped, apc, akeys, claimed>>
    /\ UNCHANGED pageVars

\* fetch(event.request) rejects: .catch(error => ...)
FetchRejected(h) ==
    /\ fh[h].pc = "fetch"
    /\ fh' = [fh EXCEPT ![h] =
                IF fh[h].req.mode = "navigate"
                  THEN [@ EXCEPT !.pc = "offline", !.net = @ + 1]
                  ELSE [@ EXCEPT !.pc = "done", !.net = @ + 1,
                                 !.outcome = "synth", !.result = OfflineResponse]]
    /\ UNCHANGED <<cacheOrder, store, wstate, ipc, ihandle, skipped, apc, akeys, claimed>>
    /\ UNCHANGED pageVars

\* return caches.match(OFFLINE_URL): respondWith gets whatever it resolves to
OfflineMatch(h) ==
    /\ fh[h].pc = "offline"
    /\ LET page == CachesMatch(OFFLINE_URL) IN
         fh' = [fh EXCEPT ![h] =
                  [@ EXCEPT !.pc = "done", !.result = page,
                            !.outcome = IF page = Undefined THEN "error"
                                        ELSE "offline"]]
    /\ UNCHANGED <<cacheOrder, store, wstate, ipc, ihandle, skipped, apc, akeys, claimed>>
    /\ UNCHANGED pageVars

\* caches.open(CACHE_NAME), not awaited by the response
PutOpen(h) ==
    /\ fh[h].wpc = "open"
    /\ cacheOrder' = OpenOrder(CACHE_NAME(fh[h].worker))
    /\ fh' = [fh EXCEPT ![h] = [@ EXCEPT !.wpc = "put", !.handle = "live"]]
    /\ UNCHANGED <<store, wstate, ipc, ihandle, skipped, apc, akeys, claimed>>
    /\ UNCHANGED pageVars

PutKey_OfflineUrl(req) == OFFLINE_URL

\* the key cache.put stores under
PutKey(req) == req.url

Put_KeepFirst(h) ==
    /\ fh[h].wpc = "put"
    /\ store' = IF fh[h].handle = "live"
                    /\ store[CACHE_NAME(fh[h].worker)][PutKey(fh[h].req)] = Undefined
                 THEN [store EXCEPT
                          ![CACHE_NAME(fh[h].worker)][PutKey(fh[h].req)] = fh[h].dup]
                 ELSE store
    /\ fh' = [fh EXCEPT ![h] =
                [@ EXCEPT !.wpc = IF fh[h].handle = "live" THEN "stored"
                                  ELSE "detached"]]
    /\ UNCHANGED <<cacheOrder, wstate, ipc, ihandle, skipped, apc, akeys, claimed>>
    /\ UNCHANGED pageVars

\* cache.put(event.request, responseToCache); its promise is dropped.
\* Storing reads the body of the object it is given: bodyUsed tells whether
\* that was the object returned to the page
Put(h) ==
    /\ fh[h].wpc = "put"
    /\ \E ok \in BOOLEAN :
        IF ~ok
          THEN /\ fh' = [fh EXCEPT ![h] = [@ EXCEPT !.wpc = "rejected"]]
               /\ UNCHANGED store
          ELSE IF fh[h].handle = "live"
            THEN /\ store' = [store EXCEPT
                                ![CACHE_NAME(fh[h].worker)][PutKey(fh[h].req)] =
                                    fh[h].dup]
                 /\ fh' = [fh EXCEPT ![h] =
                             [@ EXCEPT !.wpc = "stored",
                                       !.bodyUsed = (fh[h].dupOf = "original")]]
            ELSE /\ fh' = [fh EXCEPT ![h] =
                             [@ EXCEPT !.wpc = "detached",
                                       !.bodyUsed = (fh[h].dupOf = "original")]]
                 /\ UNCHANGED store
    /\ UNCHANGED <<cacheOrder, wstate, ipc, ihandle, skipped, apc, akeys, claimed>>
    /\ UNCHANGED pageVars

Release_DropsEntry(h) ==
    /\ fh[h].pc = "done"
    /\ fh[h].wpc \in {"none", "stored", "detached", "rejected"}
    /\ fh' = [fh EXCEPT ![h] = IdleHandler]
    /\ store' = [store EXCEPT ![CACHE_NAME(fh[h].worker)][fh[h].req.url] = Undefined]
    /\ UNCHANGED <<cacheOrder, wstate, ipc, ihandle, skipped, apc, akeys, claimed>>
    /\ UNCHANGED pageVars

\* the event is over: the response was delivered and no write is pending
Release(h) ==
    /\ fh[h].pc = "done"
    /\ fh[h].wpc \in {"none", "stored", "detached", "rejected"}
    /\ fh' = [fh EXCEPT ![h] = IdleHandler]
    /\ UNCHANGED <<cacheOrder, store, wstate, ipc, ihandle, skipped, apc, akeys, claimed>>
    /\ UNCHANGED pageVars

Next ==
    \/ \E v \in Versions : Register(v)
    \/ \E v \in Versions : InstallOpen(v)
    \/ \E v \in Versions : InstallAddAll(v)
    \/ \E v \in Versions : Activate(v)
    \/ \E v \in Versions : ActivateKeys(v)
    \/ \E v \in Versions, n \in Versions : ActivateMap(v, n)
    \/ \E v \in Versions : ActivateClaim(v)
    \/ \E h \in Handlers, req \in Requests : FetchEvent(h, req)
    \/ \E h \in Handlers : Match(h)
    \/ \E h \in Handlers : FetchResolved(h)
    \/ \E h \in Handlers : FetchRejected(h)
    \/ \E h \in Handlers : OfflineMatch(h)
    \/ \E h \in Handlers : PutOpen(h)
    \/ \E h \in Handlers : Put(h)
    \/ \E h \in Handlers : Release(h)

Spec == Init /\ [][Next]_vars

\* ------------------------------------------------------------- claims
\* the bucket of the worker that handles h, and the key the request has in it
CurrentBucket(h) == store[CACHE_NAME(fh[h].worker)]
InCurrentBucket(h) == CurrentBucket(h)[fh[h].req.url] # Undefined

NetworkSuccess(h) ==
    /\ fh[h].pc = "done"
    /\ fh[h].outcome = "network"
    /\ Cacheable(fh[h].result)

\* C2 as claimed: when the handler of a cache miss completes with a 200
\* basic network response, the current bucket already holds that response
\* under the request's key, with the body that was returned.
C2_StoredAtCompletion ==
    \A h \in Handlers :
        NetworkSuccess(h) =>
            /\ InCurrentBucket(h)
            /\ CurrentBucket(h)[fh[h].req.url].body = fh[h].result.body

\* C2 as amended: at completion a duplicate with the body of the returned
\* response is queued for storage (written or still waiting) and the body of
\* the returned response is never consumed by the write; the step at which
\* cache.put succeeds on a bucket not deleted since it was opened leaves the
\* duplicate in the current bucket under the request's key.
C2_StoredAfterPut ==
    /\ [](\A h \in Handlers :
            NetworkSuccess(h) =>
                /\ fh[h].wpc # "none"
                /\ fh[h].dup.body = fh[h].result.body
                /\ ~fh[h].bodyUsed)
    /\ [][\A h \in Handlers :
            (fh[h].wpc = "put" /\ fh'[h].wpc = "stored")
               => /\ CACHE_NAME(fh[h].worker) \in Names'
                  /\ store'[CACHE_NAME(fh[h].worker)][fh[h].req.url] = fh[h].dup
                  /\ fh[h].dup.body = fh[h].result.body]_vars

C2_Witness ==
    \E h \in Handlers :
        /\ NetworkSuccess(h)
        /\ fh[h].wpc = "stored"
        /\ ~fh[h].bodyUsed
        /\ CurrentBucket(h)[fh[h].req.url] = fh[h].result

\* C3 as claimed: a request that is not GET, or whose URL origin is not the
\* worker's origin, is not intercepted and causes no cache write.
C3_OnlySameOriginGet ==
    \A h \in Handlers :
        (fh[h].pc # "idle"
           /\ (fh[h].req.method # "GET" \/ UrlOrigin(fh[h].req.url) # SelfOrigin))
        => /\ ~fh[h].intercepted
           /\ fh[h].wpc = "none"

\* C4 as claimed: at the step that completes an activation, every bucket
\* named differently from the worker's version is absent, and the worker's
\* bucket is present and holds every manifest entry.
C4_ActivationLeavesCurrentBucket ==
    [][\A v \in Versions :
         (wstate[v] = "activating" /\ wstate'[v] = "activated")
            => /\ Names' = {CACHE_NAME(v)}
               /\ \A k \in ManifestUrls :
                    store'[CACHE_NAME(v)][k] # Undefined]_vars

\* the worker counts as installed
ReportedInstalled(v) == wstate[v] \in {"installed", "activating", "activated"}

\* C5 as claimed: a worker whose manifest fetch failed is not reported as
\* installed, and a worker reported as installed has every manifest URL in
\* its bucket.
C5_InstallAllOrNothing ==
    \A v \in Versions :
        /\ ipc[v] = "caught" => ~ReportedInstalled(v)
        /\ wstate[v] = "installed" =>
              \A k \in ManifestUrls : store[CACHE_NAME(v)][k] # Undefined

\* C6 as claimed: a worker whose install failed on a manifest fetch never
\* reaches activation: it is never activating or activated and never
\* claims the pages.
C6_FailedInstallNeverActivates ==
    \A v \in Versions :
        ipc[v] = "caught" =>
            /\ wstate[v] \notin {"activating", "activated"}
            /\ ~claimed[v]

\* the network fetch of h failed and the catch handler has answered
NetworkFailure(h) ==
    /\ fh[h].pc = "done"
    /\ fh[h].intercepted
    /\ fh[h].net = 1
    /\ fh[h].outcome # "network"

\* C7 as claimed: an intercepted navigation whose network fetch failed, with
\* no cached match, is answered with the offline page (the response stored
\* for /404.html), never with an undefined response.
C7_OfflinePageServed ==
    \A h \in Handlers :
        (NetworkFailure(h) /\ fh[h].req.mode = "navigate")
        => /\ fh[h].result # Undefined
           /\ fh[h].result.status = 200
           /\ fh[h].result.body[1] = OFFLINE_URL

\* C8: an intercepted non-navigation request whose network fetch failed,
\* with no cached match, is answered with the synthesized 503 response
\* (Service Unavailable, text/plain, body Offline); the step that answers
\* changes no bucket and the handler has no cache write queued.
C8_Synthetic503 ==
    /\ [](\A h \in Handlers :
            (NetworkFailure(h) /\ fh[h].req.mode # "navigate")
            => /\ fh[h].result.status = 503
               /\ fh[h].result.statusText = "Service Unavailable"
               /\ fh[h].result.contentType = "text/plain"
               /\ fh[h].result.body = <<"Offline">>
               /\ fh[h].wpc = "none")
    /\ [][\A h \in Handlers :
            (fh[h].pc = "fetch" /\ fh'[h].pc = "done" /\ fh'[h].outcome = "synth")
               => /\ store' = store
                  /\ cacheOrder' = cacheOrder]_vars

C8_Witness ==
    \E h \in Handlers :
        /\ NetworkFailure(h)
        /\ fh[h].req.mode # "navigate"
        /\ fh[h].result = OfflineResponse

\* h was answered with a network response that is not 200 or not basic
NotCacheableAnswer(h) ==
    /\ fh[h].pc = "done"
    /\ fh[h].outcome = "network"
    /\ (fh[h].result.status # 200 \/ fh[h].result.type # "basic")

\* C9: a fetched response that is not 200 or not basic is returned as the
\* network gave it, with no cache write queued for it, and no bucket ever
\* holds an entry that is not 200 or not basic.
C9_OnlyBasic200Cached ==
    /\ \A h \in Handlers :
          /\ NotCacheableAnswer(h) =>
                /\ fh[h].result \in NetworkResponses(fh[h].req)
                /\ fh[h].wpc = "none"
          /\ fh[h].wpc # "none" =>
                (fh[h].dup.status = 200 /\ fh[h].dup.type = "basic")
    /\ \A n \in Versions, k \in Keys :
          store[n][k] # Undefined =>
             (store[n][k].status = 200 /\ store[n][k].type = "basic")

C9_Witness ==
    \E h \in Handlers :
        /\ NotCacheableAnswer(h)
        /\ fh[h].result.type = "cors"
        /\ fh[h].wpc = "none"
        /\ \A n \in Versions : store[n][fh[h].req.url] = Undefined

\* C10 as claimed: every intercepted request ends with the cached response,
\* the network response, the offline page or the 503 response delivered,
\* and no rejection of the handler's promises is left unhandled.
C10_AlwaysAResponse ==
    \A h \in Handlers :
        (fh[h].pc = "done" /\ fh[h].intercepted)
        => /\ fh[h].outcome \in {"cached", "network", "offline", "synth"}
           /\ fh[h].result # Undefined
           /\ fh[h].wpc # "rejected"

\* C11: the install step of a worker has settled before its activation
\* begins, and every deletion that activation issues for the bucket names it
\* listed has completed before the worker claims clients and before a fetch
\* event is dispatched to it.
C11_LifecycleOrder ==
    /\ [](\A v \in Versions :
            (wstate[v] \in {"activating", "activated"} \/ apc[v] # "idle")
                => ipc[v] \in {"cached", "caught"})
    /\ [](\A h \in Handlers :
            fh[h].worker # 0 =>
                /\ claimed[fh[h].worker]
                /\ apc[fh[h].worker] = "done"
                /\ akeys[fh[h].worker] = {})
    /\ [][\A v \in Versions :
            (claimed'[v] /\ ~claimed[v]) =>
                /\ apc[v] = "map"
                /\ akeys[v] = {}]_vars

C11_Witness ==
    \E h \in Handlers :
        /\ fh[h].worker = 2
        /\ fh[h].intercepted
        /\ claimed[2]
        /\ 1 \notin Names
        /\ ipc[2] = "cached"

\* C12: a request whose key is in no bucket of the handling worker's name,
\* only in a bucket of another name, is treated as a miss and goes on to the
\* network; a hit is served from the current bucket only.
C12_HitOnlyFromCurrentBucket ==
    [][\A h \in Handlers :
         (fh[h].pc = "match" /\ fh'[h].pc # "match" /\ ~InCurrentBucket(h))
            => fh'[h].pc = "fetch"]_vars

\* the deployed script whose install ended in the .catch, nothing replacing it
FailedInstall(v) ==
    /\ ipc[v] = "caught"
    /\ apc[v] = "idle"
    /\ \A u \in Versions : u > v => wstate[u] = "parsed"
    /\ \E k \in ManifestUrls : store[CACHE_NAME(v)][k] = Undefined

\* C13: after the manifest fetch of an install has failed, a later page load
\* can start the install of that script again.
C13_FailedInstallRetried ==
    \A v \in Versions : FailedInstall(v) => ENABLED Register(v)

\* C14: once a version has finished activation, no bucket named for an older
\* version exists, whatever the handlers of the superseded worker still do.
C14_NoStaleBucketAfterActivation ==
    \A v \in Versions :
        wstate[v] = "activated" => \A n \in Names : ~(n < v)

\* two handlers of one worker in flight for the same URL
Concurrent(h, g) ==
    /\ h # g
    /\ fh[h].worker = fh[g].worker
    /\ fh[h].worker # 0
    /\ fh[h].intercepted /\ fh[g].intercepted
    /\ fh[h].req.url = fh[g].req.url

\* h has written its fetched response and its bucket has not been deleted since
Wrote(h) ==
    /\ NetworkSuccess(h)
    /\ fh[h].wpc = "stored"
    /\ fh[h].handle = "live"

\* C15: of two handlers in flight for the same uncached URL each returns the
\* response of its own network request, neither waits for nor fails by the
\* other (its pending step is always enabled), each write replaces the entry
\* under the key, and when both have written the current bucket holds under
\* the key the response one of them wrote, the one written last.
C15_LastWriteWins ==
    /\ [](\A h, g \in Handlers :
            Concurrent(h, g) =>
                /\ (fh[h].pc = "fetch" => ENABLED FetchResolved(h))
                /\ (fh[h].wpc = "open" => ENABLED PutOpen(h))
                /\ (fh[h].wpc = "put" => ENABLED Put(h))
                /\ (fh[h].outcome = "network" =>
                       fh[h].result \in NetworkResponses(fh[h].req))
                /\ ((Wrote(h) /\ Wrote(g)) =>
                       CurrentBucket(h)[fh[h].req.url] \in {fh[h].dup, fh[g].dup}))
    /\ [][\A h, g \in Handlers :
            (Concurrent(h, g) /\ Wrote(g) /\ fh[h].wpc = "put" /\ Wrote(h)') =>
                store'[CACHE_NAME(fh[h].worker)][fh[h].req.url] = fh[h].dup]_vars

C15_Witness ==
    \E h, g \in Handlers :
        /\ Concurrent(h, g)
        /\ Wrote(h) /\ Wrote(g)
        /\ fh[h].dup # fh[g].dup
        /\ CurrentBucket(h)[fh[h].req.url] = fh[h].dup

\* a step taken by a fetch handler, not by the install or activate listener
HandlerStep ==
    /\ fh' # fh
    /\ UNCHANGED <<wstate, ipc, ihandle, skipped, apc, akeys, claimed>>

\* C16: a step of a fetch handler changes cache storage only by the write of
\* a cacheable network response under the request's key in the bucket of the
\* handling worker (opened, hence created when absent, for that write); a
\* handler that answered from the cache, passed the request through, got a
\* response that is not cacheable or a network failure writes nothing, and
\* no handler step removes an entry or a bucket.
C16_HandlerWritesOnlyItsEntry ==
    /\ [][HandlerStep =>
            /\ \A n \in Names : n \in Names'
            /\ \A n \in Versions, k \in Keys :
                  store[n][k] # Undefined => store'[n][k] # Undefined
            /\ (cacheOrder' # cacheOrder =>
                  \E h \in Handlers :
                      /\ fh[h].wpc = "open"
                      /\ NetworkSuccess(h)
                      /\ cacheOrder' = Append(cacheOrder, CACHE_NAME(fh[h].worker)))
            /\ \A n \in Versions, k \in Keys :
                  store'[n][k] # store[n][k] =>
                      \E h \in Handlers :
                          /\ fh[h].wpc = "put"
                          /\ NetworkSuccess(h)
                          /\ n = CACHE_NAME(fh[h].worker)
                          /\ k = fh[h].req.url
                          /\ store'[n][k].body = fh[h].result.body]_vars
    /\ [](\A h \in Handlers :
            (fh[h].pc = "done" /\ ~NetworkSuccess(h)) => fh[h].wpc = "none")

C16_Witness ==
    \E h \in Handlers :
        /\ NetworkSuccess(h)
        /\ fh[h].wpc = "stored"
        /\ CurrentBucket(h)[fh[h].req.url] = fh[h].dup
        /\ \E g \in Handlers : fh[g].pc = "done" /\ fh[g].outcome = "synth"

\* C17: a reload of the page whose theme was set to dark and stored reads
\* dark back as the current theme, and a reload after the storage has been
\* cleared gives the theme of the system preference.
C17_ThemeRoundTrip ==
    [][Reload =>
         /\ (stored = "dark" /\ theme.current = "dark") => theme'.current = "dark"
         /\ (storageOK /\ stored = "none") =>
                theme'.current = SystemTheme(systemDark)]_vars

\* C18: no read or write of the stored theme throws out of the listener or
\* initialisation that makes it, and a page load whose storage read fails
\* ends with the theme of the system preference.
C18_StorageFailureFallsBackToSystem ==
    /\ [](~uncaught)
    /\ [][(Reload /\ ~storageOK) => theme'.current = SystemTheme(systemDark)]_vars

\* C19: each activation of the navigation toggle flips the open state of the
\* menu, so after n activations from closed with no other event in between
\* the menu is open exactly when n is odd.
C19_ToggleParity ==
    /\ [](nav.links <=> (navClicks % 2 = 1))
    /\ [][NavToggleClick => (nav'.links <=> ~nav.links)]_vars

C19_Witness ==
    /\ navClicks = MaxToggles
    /\ nav.links <=> (MaxToggles % 2 = 1)

\* C20: in every state of the initialised pricing section either every
\* monthly price is visible and every annual price hidden, or every annual
\* price is visible and every monthly price hidden.
C20_OnePriceSetVisible ==
    \/ /\ \A i \in Prices : ~pricing.monthlyHidden[i]
       /\ \A i \in Prices : pricing.annualHidden[i]
    \/ /\ \A i \in Prices : pricing.monthlyHidden[i]
       /\ \A i \in Prices : ~pricing.annualHidden[i]

C20_Witness ==
    /\ \A i \in Prices : pricing.monthlyHidden[i] /\ ~pricing.annualHidden[i]
    /\ ~pricing.isAnnual
    /\ timers # <<>>

\* C21: the install listener calls skipWaiting only when every manifest URL
\* is stored in the bucket named for its version, and never after the
\* population failed, so no worker skips waiting with an incomplete bucket.
C21_SkipOnlyWithFullBucket ==
    /\ [](\A v \in Versions : skipped[v] => ipc[v] = "cached")
    /\ [][\A v \in Versions :
            (skipped'[v] /\ ~skipped[v]) =>
                \A k \in ManifestUrls : store'[CACHE_NAME(v)][k] # Undefined]_vars

\* C22: one press of Ctrl/Cmd+Shift+T, handled by every listener the page
\* has registered, leaves the current theme the opposite of what it was and,
\* where storage can be written, the stored preference equal to it.
C22_ShortcutTogglesOnce ==
    [][ThemeShortcut =>
         /\ theme'.current = Opposite(theme.current)
         /\ storageOK => stored' = theme'.current]_vars

C24_ThemeIsLightOrDark ==
    /\ theme.current \in Themes
    /\ theme.attr = theme.current

C24_Witness ==
    /\ theme.bound
    /\ stored = "sepia"
    /\ systemDark
    /\ theme.current = "light"
    /\ theme.attr = "light"

\* C25: a change of the system colour scheme never writes storage, changes
\* the theme only while no preference is stored, and on a page with the
\* listener bound and readable storage then applies the new system theme.
C25_SystemChangeOnlyWithoutStored ==
    [][SystemChange =>
         /\ stored' = stored
         /\ theme' # theme => stored = "none"
         /\ (theme.bound /\ storageOK /\ stored = "none") =>
                theme'.current = SystemTheme(systemDark')]_vars

C25_Witness ==
    /\ theme.bound
    /\ stored = "light"
    /\ theme.current = "light"
    /\ systemDark

\* C26: on a page without the theme toggle element initialisation applies
\* the theme of the system preference whatever storage holds or does, leaves
\* storage as it is and binds no listener of ThemeManager, so no click and
\* no system change acts on the theme.
C26_NoToggleUsesSystemTheme ==
    /\ [](~hasToggle => ~theme.bound)
    /\ [][(Reload /\ ~hasToggle) =>
            /\ theme'.current = SystemTheme(systemDark)
            /\ theme'.attr = SystemTheme(systemDark)
            /\ ~theme'.bound
            /\ ~uncaught'
            /\ stored' = stored]_vars
    /\ [][(SystemChange /\ ~hasToggle) => theme' = theme]_vars

C26_Witness ==
    /\ ~hasToggle
    /\ stored = "dark"
    /\ ~systemDark
    /\ theme.current = "light"
    /\ ~theme.bound

\* C27: a success notification is shown and the form is reset only for a
\* submit event whose fields had passed validation.
C27_SuccessOnlyWhenValid ==
    [][/\ \A i \in 1..MaxSubmits : FeedbackNotify(i) => fb[i].valid
       /\ FeedbackReset => Head(fb).valid]_vars

\* C28: in every state the nav-links element is active exactly when the
\* toggle is active, aria-expanded is true and body scrolling is locked, and
\* an Escape press or a click outside the navbar leaves the menu closed.
C28_MenuConsistent ==
    /\ [](/\ nav.links = nav.toggle
          /\ nav.links = nav.expanded
          /\ nav.links = nav.locked)
    /\ [][(OutsideClick \/ EscapeKey) => ~nav'.links]_vars

C28_Witness ==
    /\ nav.links /\ nav.toggle /\ nav.expanded /\ nav.locked
    /\ navClicks = 1

\* C29: when no timer of switchPricing is pending the billing toggle is
\* enabled, the annual prices are visible and the monthly ones hidden exactly
\* when the toggle was last set to annual, and aria-checked and
\* getCurrentBillingType agree with that.
C29_PricingSettles ==
    timers = <<>> =>
        /\ ~pricing.disabled
        /\ \A i \in Prices : /\ pricing.annualHidden[i] = ~pricing.checked
                             /\ pricing.monthlyHidden[i] = pricing.checked
        /\ pricing.ariaChecked = pricing.checked
        /\ GetCurrentBillingType(pricing) =
               (IF pricing.checked THEN "annual" ELSE "monthly")

C29_Witness ==
    /\ timers = <<>>
    /\ pricing.checked
    /\ \A i \in Prices : ~pricing.annualHidden[i]

\* C30: when no submission and no feedback timer is pending the submit
\* button is enabled, has no loading class and shows the label it had when
\* the page was loaded.
C30_ButtonRestored ==
    (subs = <<>> /\ fb = <<>>) =>
        /\ ~form.disabled
        /\ ~form.loading
        /\ form.label = OriginalLabel

\* C31: over the lifetime of a CounterManager each stat number starts its
\* count-up animation at most once, however many times the sections that
\* contain it are reported as intersecting
C31_CounterStartsOnce == \A n \in Stats : cm.starts[n] <= 1

\* two stats sections holding the same number have both been reported as
\* intersecting, and the number was started
C31_Witness ==
    \E e, f \in Sections :
        /\ e # f
        /\ layout.stats[e] /\ layout.stats[f]
        /\ {e, f} \subseteq cm.faded
        /\ \E n \in layout.numbers[e] \cap layout.numbers[f] : cm.starts[n] = 1

====
